---- MODULE Spec2Model ----
(***************************************************************************)
(* Model of fortune500_streamlit_app.py: a Streamlit script that loads an  *)
(* uploaded CSV (load_data, cached), and on every widget interaction       *)
(* reruns top to bottom, computing its aggregates in the order of the      *)
(* source.  A rerun stops at the first uncaught exception.                 *)
(*                                                                         *)
(* Cell texts are sequences of one-character strings so that the           *)
(* str.replace / float / int conversions of load_data are computed, not    *)
(* assumed.  Numbers are fixed point: the integer n stands for n / Scale.  *)
(***************************************************************************)
EXTENDS Integers, Sequences, FiniteSets, TLC

VARIABLES uploaded_file, top_x, state_ix, cache, loaded, out

vars == <<uploaded_file, top_x, state_ix, cache, loaded, out>>

(***************************************************************************)
(* Bounds of the model                                                     *)
(***************************************************************************)
MaxRows == 2

MaxTopX == 2

(***************************************************************************)
(* Program constants                                                       *)
(***************************************************************************)
SliderMin == 1

SliderMax == 50

SliderDefault == 10

\* One fractional decimal digit is kept: n stands for n / Scale
Scale == Cardinality({"0", "1", "2", "3", "4", "5", "6", "7", "8", "9"})

required_columns == <<"REVENUES", "PROFIT", "EMPLOYEES", "NAME", "STATE", "COUNTY">>

dropna_subset == {"REVENUES", "PROFIT", "EMPLOYEES"}

map_columns == {"NAME", "LATITUDE", "LONGITUDE"}

(***************************************************************************)
(* Cell values of a DataFrame: a float/int (num), a missing value (nan)    *)
(* or a Python str (str).                                                  *)
(***************************************************************************)
NaN == [k |-> "nan", n |-> 0, s |-> <<>>]

Num(x) == [k |-> "num", n |-> x, s |-> <<>>]

Str(t) == [k |-> "str", n |-> 0, s |-> t]

RangeOf(q) == {q[i] : i \in 1..Len(q)}

(***************************************************************************)
(* Text conversions                                                        *)
(***************************************************************************)
Digits == {"0", "1", "2", "3", "4", "5", "6", "7", "8", "9"}

DigitVal(c) ==
    CASE c = "0" -> 0 [] c = "1" -> 1 [] c = "2" -> 2 [] c = "3" -> 3
      [] c = "4" -> 4 [] c = "5" -> 5 [] c = "6" -> 6 [] c = "7" -> 7
      [] c = "8" -> 8 [] c = "9" -> 9

RECURSIVE NatOf(_)
NatOf(ds) ==
    IF ds = <<>> THEN 0
    ELSE NatOf(SubSeq(ds, 1, Len(ds) - 1)) * 10 + DigitVal(ds[Len(ds)])

AllDigits(ds) == \A i \in 1..Len(ds) : ds[i] \in Digits

\* str.replace(c, '') for every c in chars
Replace(t, chars) == SelectSeq(t, LAMBDA c : c \notin chars)

\* str.lower() on the letters the cell texts use
Lower(t) ==
    [i \in 1..Len(t) |-> CASE t[i] = "N" -> "n" [] t[i] = "A" -> "a" [] OTHER -> t[i]]

Unsigned(t) == IF t # <<>> /\ t[1] = "-" THEN SubSeq(t, 2, Len(t)) ELSE t

Sign(t) == IF t # <<>> /\ t[1] = "-" THEN -1 ELSE 1

DotPositions(t) == {i \in 1..Len(t) : t[i] = "."}

IntPart(b) ==
    IF DotPositions(b) = {} THEN b
    ELSE SubSeq(b, 1, (CHOOSE i \in DotPositions(b) : TRUE) - 1)

FracPart(b) ==
    IF DotPositions(b) = {} THEN <<>>
    ELSE SubSeq(b, (CHOOSE i \in DotPositions(b) : TRUE) + 1, Len(b))

\* A decimal literal: [-] digits [. digits], with a digit somewhere.  The cell
\* texts of the model carry at most one fractional digit (Scale = 10).
IsDecimal(t) ==
    LET b == Unsigned(t) IN
    /\ Cardinality(DotPositions(b)) <= 1
    /\ AllDigits(IntPart(b)) /\ AllDigits(FracPart(b))
    /\ Len(IntPart(b)) + Len(FracPart(b)) > 0

DecimalValue(t) ==
    LET b == Unsigned(t)
        f == FracPart(b)
    IN  Sign(t) * (NatOf(IntPart(b)) * Scale + (IF f = <<>> THEN 0 ELSE DigitVal(f[1])))

\* Python float(text): a decimal literal, or nan in any case with an optional
\* sign.  ok = FALSE is ValueError.
PyFloat(t) ==
    IF IsDecimal(t) THEN [ok |-> TRUE, v |-> Num(DecimalValue(t))]
    ELSE IF Lower(Unsigned(t)) = <<"n", "a", "n">> THEN [ok |-> TRUE, v |-> NaN]
    ELSE [ok |-> FALSE, v |-> NaN]

\* Python int(text): [-] digits only.  ok = FALSE is ValueError.
PyInt(t) ==
    IF Unsigned(t) # <<>> /\ AllDigits(Unsigned(t))
    THEN [ok |-> TRUE, v |-> Num(Sign(t) * NatOf(Unsigned(t)) * Scale)]
    ELSE [ok |-> FALSE, v |-> NaN]

(***************************************************************************)
(* pd.read_csv: the default NA strings (those the cell alphabet can spell) *)
(* become NaN; a column whose other cells are all decimal literals is      *)
(* numeric, any other column holds str cells.                              *)
(***************************************************************************)
NAStrings ==
    { <<>>, <<"N", "/", "A">>, <<"n", "/", "a">>, <<"N", "A">>,
      <<"N", "a", "N">>, <<"n", "a", "n">>, <<"-", "N", "a", "N">>,
      <<"-", "n", "a", "n">> }

DataColumns == {"REVENUES", "PROFIT", "EMPLOYEES", "STATE", "COUNTY"}

ColumnIsNumeric(rows, c) ==
    \A i \in 1..Len(rows) : rows[i][c] \in NAStrings \/ IsDecimal(rows[i][c])

ReadCell(rows, i, c) ==
    IF rows[i][c] \in NAStrings THEN NaN
    ELSE IF ColumnIsNumeric(rows, c) THEN Num(DecimalValue(rows[i][c]))
    ELSE Str(rows[i][c])

\* The DataFrame of a parsed file: idx is the pandas index label (the input
\* row number); NAME, LATITUDE and LONGITUDE cells are not valued, only their
\* presence in columns is.  A column the header lacks has no cells: its slot
\* in the row record is NaN and every access checks columns first (KeyError).
ReadCsv(file) ==
    [ columns |-> file.header,
      rows |-> [i \in 1..Len(file.rows) |->
                  [c \in DataColumns |->
                      IF c \in file.header THEN ReadCell(file.rows, i, c) ELSE NaN]
                  @@ [idx |-> i]] ]

EmptyDataFrame == [columns |-> {}, rows |-> <<>>]

\* DataFrame.empty
IsEmpty(df) == df.columns = {} \/ df.rows = <<>>

(***************************************************************************)
(* load_data (lines 21-50).  The result is what the call leaves behind:    *)
(* the uncaught exception if any, the st.error messages and st.write       *)
(* outputs it emitted, and the DataFrame it returned.                      *)
(***************************************************************************)
ReadError == [msg |-> "Error reading file", cols |-> <<>>]

MissingColumnsError(cols) == [msg |-> "Missing columns in the uploaded data", cols |-> cols]

NoDataError == [msg |-> "No data to display due to missing columns or other issues.", cols |-> <<>>]

\* line 37
MissingColumns(df) == SelectSeq(required_columns, LAMBDA col : col \notin df.columns)

\* line 43
DropNa(rows) == SelectSeq(rows, LAMBDA r : \A c \in dropna_subset : r[c].k # "nan")

\* lines 46-47: the lambda applied to one REVENUES or PROFIT cell
CleanFloat(x) ==
    IF x.k = "str" THEN PyFloat(Replace(x.s, {"$", ","})) ELSE [ok |-> TRUE, v |-> x]

\* line 48: the lambda applied to one EMPLOYEES cell
CleanInt(x) ==
    IF x.k = "str" THEN PyInt(Replace(x.s, {","})) ELSE [ok |-> TRUE, v |-> x]

CleanRow(r) ==
    [r EXCEPT !["REVENUES"] = CleanFloat(@).v,
              !["PROFIT"] = CleanFloat(@).v,
              !["EMPLOYEES"] = CleanInt(@).v]

RowConverts(r) ==
    CleanFloat(r["REVENUES"]).ok /\ CleanFloat(r["PROFIT"]).ok /\ CleanInt(r["EMPLOYEES"]).ok

\* lines 42-50
CleanData(df) ==
    LET kept == DropNa(df.rows) IN
    IF \A i \in 1..Len(kept) : RowConverts(kept[i])
    THEN [exc |-> "none",
          df |-> [df EXCEPT !.rows = [i \in 1..Len(kept) |-> CleanRow(kept[i])]]]
    ELSE [exc |-> "ValueError", df |-> EmptyDataFrame]

load_data(file) ==
    IF ~file.parses
    THEN [exc |-> "none", errors |-> <<ReadError>>, shown |-> <<>>, df |-> EmptyDataFrame]
    ELSE LET df == ReadCsv(file) IN
         IF MissingColumns(df) # <<>>
         THEN [exc |-> "none", errors |-> <<MissingColumnsError(MissingColumns(df))>>,
               shown |-> <<"columns">>, df |-> df]
         ELSE [exc |-> CleanData(df).exc, errors |-> <<>>,
               shown |-> <<"columns">>, df |-> CleanData(df).df]

(***************************************************************************)
(* Derived values are exact rationals p / q (q > 0, lowest terms) or NaN.  *)
(***************************************************************************)
RNaN == [k |-> "nan", p |-> 0, q |-> 1]

Abs(a) == IF a < 0 THEN -a ELSE a

RECURSIVE Gcd(_, _)
Gcd(a, b) == IF b = 0 THEN a ELSE Gcd(b, a % b)

Rat(p, q) ==
    LET g == Gcd(Abs(p), Abs(q))
        sg == IF q < 0 THEN -1 ELSE 1
    IN  [k |-> "num", p |-> sg * (p \div g), q |-> sg * (q \div g)]

RAdd(a, b) == Rat(a.p * b.q + b.p * a.q, a.q * b.q)

\* Series.sum(): NaN is skipped, numbers add, str cells concatenate
RECURSIVE SumCells(_)
SumCells(cs) ==
    IF cs = <<>> THEN Num(0)
    ELSE LET h == Head(cs)
             rest == SumCells(Tail(cs))
         IN  IF h.k = "nan" THEN rest
             ELSE IF h.k = "str" THEN Str(h.s \o rest.s)
             ELSE Num(h.n + rest.n)

\* Series.mean() of rationals: NaN is skipped; the mean of nothing is NaN
RECURSIVE RSum(_)
RSum(ms) ==
    IF ms = <<>> THEN Rat(0, 1)
    ELSE IF Head(ms).k = "nan" THEN RSum(Tail(ms))
    ELSE RAdd(Head(ms), RSum(Tail(ms)))

RMean(ms) ==
    LET present == SelectSeq(ms, LAMBDA m : m.k # "nan") IN
    IF present = <<>> THEN RNaN
    ELSE Rat(RSum(present).p, RSum(present).q * Len(present))

Column(rows, c) == [i \in 1..Len(rows) |-> rows[i][c]]

\* Series.unique(): first appearances in order, NaN included once
Unique(cs) ==
    LET ids == [i \in 1..Len(cs) |-> i]
        firsts == SelectSeq(ids, LAMBDA i : \A j \in 1..(i - 1) : cs[j] # cs[i])
    IN  [i \in 1..Len(firsts) |-> cs[firsts[i]]]

(***************************************************************************)
(* The aggregation queries of the script (lines 64-188)                    *)
(***************************************************************************)
\* line 65: groupby drops the rows whose key is NaN
GroupKeys(rows, c) == {rows[i][c] : i \in 1..Len(rows)} \ {NaN}

GroupRows(rows, c, key) == SelectSeq(rows, LAMBDA r : r[c] = key)

state_revenue_dict(df) ==
    { [key |-> s, total |-> SumCells(Column(GroupRows(df.rows, "STATE", s), "REVENUES"))] :
        s \in GroupKeys(df.rows, "STATE") }

\* line 77: sort_values(by='REVENUES', ascending=False) with the default
\* kind='quicksort', which is not stable: numbers in descending order with
\* equal revenues in any order, then the NaN rows in their original order.
\* (The order of a str column is never displayed: line 80 raises first.)
Orders ==
    [n \in 0..MaxRows |-> {p \in [1..n -> 1..n] : \A i, j \in 1..n : i # j => p[i] # p[j]}]

\* sort_values with ascending left at its default (True)
IsSortedAscending(rows, p) ==
    \A i, j \in 1..Len(rows) :
        i < j =>
            LET a == rows[p[i]]["REVENUES"]
                b == rows[p[j]]["REVENUES"]
            IN  /\ (a.k = "num" /\ b.k = "num") => a.n <= b.n
                /\ a.k = "nan" => (b.k = "nan" /\ p[i] < p[j])

IsSortedOrder(rows, p) ==
    \A i, j \in 1..Len(rows) :
        i < j =>
            LET a == rows[p[i]]["REVENUES"]
                b == rows[p[j]]["REVENUES"]
            IN  /\ (a.k = "num" /\ b.k = "num") => a.n >= b.n
                /\ a.k = "nan" => (b.k = "nan" /\ p[i] < p[j])

SortOrders(rows) ==
    IF \E i \in 1..Len(rows) : rows[i]["REVENUES"].k = "str"
    THEN {[i \in 1..Len(rows) |-> i]}
    ELSE {p \in Orders[Len(rows)] : IsSortedOrder(rows, p)}

Min(a, b) == IF a < b THEN a ELSE b

\* .tail(top_x) in place of .head(top_x)
top_companies_tail(df, order, x) ==
    [i \in 1..Min(x, Len(df.rows)) |->
        [idx |-> df.rows[order[Len(df.rows) - Min(x, Len(df.rows)) + i]].idx,
         revenue |-> df.rows[order[Len(df.rows) - Min(x, Len(df.rows)) + i]]["REVENUES"]]]

\* line 77: df[['NAME', 'REVENUES']] ... .head(top_x)
top_companies(df, order, x) ==
    [i \in 1..Min(x, Len(df.rows)) |->
        [idx |-> df.rows[order[i]].idx, revenue |-> df.rows[order[i]]["REVENUES"]]]

\* sort_values leaves the order of equal revenues open, so line 77 has one
\* possible result per admissible order
TopChoices(df, x) == {top_companies(df, order, x) : order \in SortOrders(df.rows)}

\* line 78
total_revenue(top) == SumCells([i \in 1..Len(top) |-> top[i].revenue])

\* line 93: the options of the select box
StateOptions(df) == Unique(Column(df.rows, "STATE"))

\* line 96: df[df['STATE'] == state]; NaN equals nothing
state_data(df, state) ==
    SelectSeq(df.rows, LAMBDA r : state.k # "nan" /\ r["STATE"] = state)

\* line 100: the lambda applied to one row; PROFIT is read only when REVENUES
\* is not 0 (NaN != 0 is true)
MarginExc(df, r) ==
    IF r["REVENUES"].k = "num" /\ r["REVENUES"].n = 0 THEN "none"
    ELSE IF "PROFIT" \notin df.columns THEN "KeyError"
    ELSE IF r["PROFIT"].k = "str" THEN "TypeError"
    ELSE "none"

\* the lambda of line 100 without its "if row['REVENUES'] != 0 else 0"
ProfitMarginUnguarded(r) ==
    IF r["REVENUES"].k = "nan" \/ r["PROFIT"].k = "nan" THEN RNaN
    ELSE IF r["REVENUES"].n = 0 THEN [k |-> "inf", p |-> r["PROFIT"].n, q |-> 0]
    ELSE Rat(r["PROFIT"].n * 100, r["REVENUES"].n)

ProfitMargin(r) ==
    IF r["REVENUES"].k = "num" /\ r["REVENUES"].n = 0 THEN Rat(0, 1)
    ELSE IF r["REVENUES"].k = "nan" \/ r["PROFIT"].k = "nan" THEN RNaN
    ELSE Rat(r["PROFIT"].n * 100, r["REVENUES"].n)

\* lines 99-102: the PROFIT_MARGIN column of state_data
profit_margins(df, state) ==
    [i \in 1..Len(state_data(df, state)) |->
        [idx |-> state_data(df, state)[i].idx, margin |-> ProfitMargin(state_data(df, state)[i])]]

\* line 103
avg_profit_margin(df, state) ==
    RMean([i \in 1..Len(profit_margins(df, state)) |-> profit_margins(df, state)[i].margin])

\* line 128
avg_employees(df, state) ==
    RMean([i \in 1..Len(state_data(df, state)) |->
              IF state_data(df, state)[i]["EMPLOYEES"].k = "num"
              THEN Rat(state_data(df, state)[i]["EMPLOYEES"].n, Scale)
              ELSE RNaN])

\* line 148: value_counts drops NaN
county_company_count(df) ==
    { [key |-> c, n |-> Len(GroupRows(df.rows, "COUNTY", c))] :
        c \in GroupKeys(df.rows, "COUNTY") }

\* line 173
county_data(df) ==
    { [key |-> c, total |-> SumCells(Column(GroupRows(df.rows, "COUNTY", c), "EMPLOYEES"))] :
        c \in GroupKeys(df.rows, "COUNTY") }

(***************************************************************************)
(* One run of the script body (lines 56-188) on the DataFrame load_data    *)
(* returned.  Stages are the display steps in source order; a stage that   *)
(* raises ends the run, and nothing after it is computed or shown.         *)
(***************************************************************************)
Stages ==
    << "revenue_by_state", "slider", "top_companies", "bar_chart", "pivot_table",
       "selectbox", "profit_margin", "scatter", "avg_employees", "growth", "map",
       "county_companies", "county_employees" >>

StageIndex(stage) == CHOOSE i \in 1..Len(Stages) : Stages[i] = stage

StageExc(df, top, state, stage) ==
    CASE stage = "revenue_by_state" ->                              \* line 65
            IF {"STATE", "REVENUES"} \subseteq df.columns THEN "none" ELSE "KeyError"
      [] stage = "top_companies" ->                                 \* lines 77-80
            IF "NAME" \notin df.columns THEN "KeyError"
            ELSE IF total_revenue(top).k = "str" THEN "ValueError"
            ELSE "none"
      [] stage = "profit_margin" ->                                 \* lines 96-106
            IF state_data(df, state) = <<>>
            THEN IF "PROFIT" \in df.columns THEN "none" ELSE "ValueError"
            ELSE IF \A i \in 1..Len(state_data(df, state)) :
                        MarginExc(df, state_data(df, state)[i]) = "none"
            THEN "none"
            ELSE IF "PROFIT" \notin df.columns THEN "KeyError"
            ELSE "TypeError"
      [] stage = "avg_employees" ->                                 \* lines 128-129
            IF "EMPLOYEES" \notin df.columns THEN "KeyError"
            ELSE IF \E i \in 1..Len(state_data(df, state)) :
                        state_data(df, state)[i]["EMPLOYEES"].k = "str"
            THEN "TypeError"
            ELSE "none"
      [] stage = "map" ->                                           \* lines 144-145
            IF map_columns \subseteq df.columns THEN "none" ELSE "KeyError"
      [] stage = "county_companies" ->                              \* lines 148-153
            IF "COUNTY" \notin df.columns THEN "KeyError"
            ELSE IF county_company_count(df) = {} THEN "IndexError"
            ELSE "none"
      [] stage = "county_employees" ->                              \* lines 173-178
            IF \E e \in county_data(df) : e.total.k = "str" THEN "ValueError" ELSE "none"
      [] OTHER -> "none"

\* the assignment landing on df itself (state_data a view of df)
AfterMarginAssignInPlace(df, margins) == [df EXCEPT !.columns = @ \cup {"PROFIT_MARGIN"}]

\* line 99 assigns PROFIT_MARGIN to state_data, which line 96 made as a copy
\* of the selected rows: the script's df is what it was
AfterMarginAssign(df, margins) == df

Blank ==
    [ exc |-> "none", errors |-> <<>>, shown |-> <<>>, df |-> EmptyDataFrame,
      state_revenue |-> {}, top |-> <<>>, total_revenue |-> NaN,
      options |-> <<>>, state |-> NaN, margins |-> <<>>,
      avg_profit_margin |-> RNaN, avg_employees |-> RNaN,
      county_company_count |-> {}, county_data |-> {} ]

Script(ld, ix, top) ==
    LET df == ld.df
        state == StateOptions(df)[ix]
        failing == {i \in 1..Len(Stages) : StageExc(df, top, state, Stages[i]) # "none"}
        fail == IF failing = {} THEN Len(Stages) + 1
                ELSE CHOOSE i \in failing : \A j \in failing : i <= j
        Done(stage) == StageIndex(stage) < fail
        base == [Blank EXCEPT !.errors = ld.errors, !.shown = ld.shown, !.df = df]
    IN  IF ld.exc # "none" THEN [base EXCEPT !.exc = ld.exc]
        ELSE IF IsEmpty(df) THEN [base EXCEPT !.errors = Append(@, NoDataError)]   \* line 62
        ELSE [ base EXCEPT
                 !.exc = IF fail > Len(Stages) THEN "none"
                         ELSE StageExc(df, top, state, Stages[fail]),
                 !.shown = @ \o SubSeq(Stages, 1, fail - 1),
                 !.df = IF Done("profit_margin")
                        THEN AfterMarginAssign(df, profit_margins(df, state)) ELSE df,
                 !.state_revenue = IF Done("revenue_by_state") THEN state_revenue_dict(df) ELSE @,
                 !.top = IF Done("top_companies") THEN top ELSE @,
                 !.total_revenue = IF Done("top_companies") THEN total_revenue(top) ELSE @,
                 !.options = IF Done("selectbox") THEN StateOptions(df) ELSE @,
                 !.state = IF Done("selectbox") THEN state ELSE @,
                 !.margins = IF Done("profit_margin") THEN profit_margins(df, state) ELSE @,
                 !.avg_profit_margin = IF Done("profit_margin") THEN avg_profit_margin(df, state) ELSE @,
                 !.avg_employees = IF Done("avg_employees") THEN avg_employees(df, state) ELSE @,
                 !.county_company_count = IF Done("county_companies") THEN county_company_count(df) ELSE @,
                 !.county_data = IF Done("county_employees") THEN county_data(df) ELSE @ ]

Shown(o, stage) == \E i \in 1..Len(o.shown) : o.shown[i] = stage

(***************************************************************************)
(* Uploaded files: the parsed cell texts of a CSV, or a file read_csv      *)
(* cannot read.                                                            *)
(***************************************************************************)
AllColumns == {"NAME", "REVENUES", "PROFIT", "EMPLOYEES", "STATE", "COUNTY", "LATITUDE", "LONGITUDE"}

\* The columns a header may lack: none, one required column, two of them, or
\* the map's coordinates
MissingSets ==
    {{}} \cup {{c} : c \in RangeOf(required_columns)}
         \cup {{"PROFIT", "EMPLOYEES"}, {"LATITUDE", "LONGITUDE"}}

Headers == {AllColumns \ m : m \in MissingSets}

\* Cell texts per column.  The first revenue text reads 10.5 once '$' and ','
\* are stripped; the second employee text reads 10.5 too, which int() refuses.
RevenueTexts == { <<"$", "2">>, <<"$", "1", ",", "0", ".", "5">>, <<"0">>, <<"$", "n", "a", "n">> }

ProfitTexts == { <<"-", "$", "1">>, <<"1">>, <<"N", "/", "A">> }

EmployeesTexts == { <<"3">>, <<"1", ",", "0", ".", "5">> }

StateTexts == { <<"C", "A">>, <<"N", "Y">>, <<>> }

CountyTexts == { <<"K">> }

ColumnTexts(c) ==
    CASE c = "REVENUES" -> RevenueTexts [] c = "PROFIT" -> ProfitTexts
      [] c = "EMPLOYEES" -> EmployeesTexts [] c = "STATE" -> StateTexts
      [] c = "COUNTY" -> CountyTexts

BaseRow ==
    [c \in DataColumns |->
        CASE c = "REVENUES" -> <<"$", "2">> [] c = "PROFIT" -> <<"-", "$", "1">>
          [] c = "EMPLOYEES" -> <<"3">> [] c = "STATE" -> <<"C", "A">>
          [] c = "COUNTY" -> <<"K">>]

\* The rows of the model: BaseRow with at most one cell replaced
RowDomain ==
    UNION {{[BaseRow EXCEPT ![c] = t] : t \in ColumnTexts(c)} : c \in DataColumns}

BadFile == [parses |-> FALSE, header |-> {}, rows |-> <<>>]

NoFile == [parses |-> FALSE, header |-> {"none"}, rows |-> <<>>]

Files ==
    {BadFile} \cup
    { [parses |-> TRUE, header |-> h, rows |-> rs] :
        h \in Headers, rs \in UNION {[1..n -> RowDomain] : n \in 0..MaxRows} }

TopXValues == {n \in SliderMin..SliderMax : n <= MaxTopX \/ n = SliderDefault}

(***************************************************************************)
(* The session.  st.cache_data keys load_data on the uploaded file and     *)
(* hands every rerun a copy of the cached return value; a call that raised *)
(* is not cached.  cache is the entry of the file now uploaded.  loaded    *)
(* records what load_data returned when it last executed.                  *)
(***************************************************************************)
NoEntry == [present |-> FALSE, ld |-> [exc |-> "none", errors |-> <<>>, shown |-> <<>>, df |-> EmptyDataFrame]]

Entry(ld) == [present |-> TRUE, ld |-> ld]

Init ==
    /\ uploaded_file = NoFile
    /\ top_x = SliderDefault
    /\ state_ix = 1
    /\ cache = NoEntry
    /\ loaded = NoEntry
    /\ out = Blank

\* One rerun of the script with the widget values x and ix
Rerun(file, x, ix) ==
    LET ld == IF cache.present THEN cache.ld ELSE load_data(file) IN
    \E top \in TopChoices(ld.df, x) :
        /\ out' = Script(ld, ix, top)
        /\ cache' = IF ld.exc = "none" THEN Entry(ld) ELSE NoEntry
        /\ loaded' = IF cache.present THEN loaded ELSE Entry(ld)
        /\ top_x' = IF Shown(out', "slider") THEN x ELSE SliderDefault
        /\ state_ix' = IF Shown(out', "selectbox") THEN ix ELSE 1

\* line 53: the user uploads a file.  Replacing a file is Remove followed by
\* Upload.
Upload(file) ==
    /\ uploaded_file' = file
    /\ Rerun(file, top_x, 1)

UploadFile == uploaded_file = NoFile /\ \E file \in Files : Upload(file)

\* line 53: the user removes the file; line 56 skips the body, no widget is
\* rendered and the widgets' values are dropped
Remove ==
    /\ uploaded_file # NoFile
    /\ uploaded_file' = NoFile
    /\ top_x' = SliderDefault
    /\ state_ix' = 1
    /\ cache' = NoEntry
    /\ loaded' = NoEntry
    /\ out' = Blank

\* line 75: the user moves the slider
SetTopX(x) ==
    /\ Shown(out, "slider")
    /\ x # top_x
    /\ UNCHANGED uploaded_file
    /\ Rerun(uploaded_file, x, state_ix)

\* line 93: the user picks another state
SelectState(ix) ==
    /\ Shown(out, "selectbox")
    /\ ix \in 1..Len(out.options)
    /\ ix # state_ix
    /\ UNCHANGED uploaded_file
    /\ Rerun(uploaded_file, top_x, ix)

Next ==
    \/ UploadFile
    \/ Remove
    \/ \E x \in TopXValues : SetTopX(x)
    \/ \E ix \in 1..MaxRows : SelectState(ix)

Spec == Init /\ [][Next]_vars

(***************************************************************************)
(* Vocabulary of the properties                                            *)
(***************************************************************************)
FileLoaded == uploaded_file # NoFile /\ uploaded_file.parses

RequiredMissing == RangeOf(required_columns) \ uploaded_file.header

HasRequired == FileLoaded /\ RequiredMissing = {}

\* The Table: the DataFrame load_data returned when it executed
Table == loaded.ld.df

TableReturned == HasRequired /\ loaded.present /\ loaded.ld.exc = "none"

IdxOf(rows) == {rows[i].idx : i \in 1..Len(rows)}

RowOf(rows, idx) == rows[CHOOSE i \in 1..Len(rows) : rows[i].idx = idx]

\* The cell read_csv gives field c of input row i
RawCell(i, c) == ReadCell(uploaded_file.rows, i, c)

Unparseable(i, c) ==
    /\ RawCell(i, c).k = "str"
    /\ ~(IF c = "EMPLOYEES" THEN CleanInt(RawCell(i, c)).ok ELSE CleanFloat(RawCell(i, c)).ok)

RowUnparseable(i) == \E c \in dropna_subset : Unparseable(i, c)

RowValid(i) == \A c \in dropna_subset : RawCell(i, c).k # "nan" /\ ~Unparseable(i, c)

\* The sum of the revenues that are present (a missing revenue adds nothing)
RECURSIVE SumOfRevenues(_)
SumOfRevenues(S) ==
    IF S = {} THEN 0
    ELSE LET e == CHOOSE e \in S : TRUE IN
         (IF e.v.k = "num" THEN e.v.n ELSE 0) + SumOfRevenues(S \ {e})

TopRevenues == {[id |-> out.top[i].idx, v |-> out.top[i].revenue] : i \in 1..Len(out.top)}

TableRevenues(df) == {[id |-> df.rows[i].idx, v |-> df.rows[i]["REVENUES"]] : i \in 1..Len(df.rows)}

RegionTotals == {[id |-> e.key, v |-> e.total] : e \in out.state_revenue}

Precedes(a, b) ==
    \/ a.k = "num" /\ b.k = "num" /\ a.n > b.n
    \/ a.k = "num" /\ b.k = "nan"

(***************************************************************************)
(* C1: for every uploaded dataset whose header lacks a required column,    *)
(* load reports a schema error listing exactly the missing columns, no     *)
(* Table is produced, and processing halts: no cleaning and no aggregation *)
(* query is executed on that dataset.                                      *)
(***************************************************************************)
C1_SchemaErrorHalts ==
    (FileLoaded /\ RequiredMissing # {}) =>
        /\ \E i \in 1..Len(out.errors) :
              /\ out.errors[i].msg = "Missing columns in the uploaded data"
              /\ RangeOf(out.errors[i].cols) = RequiredMissing
        /\ IsEmpty(out.df)
        /\ out.exc = "none"
        /\ \A i \in 1..Len(Stages) : ~Shown(out, Stages[i])

(***************************************************************************)
(* C2: for every input with all required columns for which load returns a  *)
(* Table, every row of the Table has a non-missing, numeric revenue,       *)
(* profit and employee count.                                              *)
(***************************************************************************)
C2_CleanedRowsNumeric ==
    TableReturned =>
        \A i \in 1..Len(Table.rows) : \A c \in dropna_subset : Table.rows[i][c].k = "num"

(***************************************************************************)
(* C3: when a textual revenue, profit or employee count of a row cannot be *)
(* parsed as a number after stripping '$' and ',', load does not raise: it *)
(* returns a Table that excludes exactly that row and keeps every other    *)
(* valid row.                                                              *)
(***************************************************************************)
C3_UnparseableRowExcluded ==
    (HasRequired /\ loaded.present) =>
        /\ loaded.ld.exc = "none"
        /\ \A i \in 1..Len(uploaded_file.rows) :
              /\ RowUnparseable(i) => i \notin IdxOf(Table.rows)
              /\ RowValid(i) => i \in IdxOf(Table.rows)

(***************************************************************************)
(* C4: for all N in [1,50] and every cleaned Table, the Top-N sequence is  *)
(* sorted by revenue descending (missing revenues last), has length        *)
(* min(N, table size), consists of rows of the Table, each at most once,   *)
(* and the reported total is the sum of exactly those revenues.            *)
(***************************************************************************)
C4_TopN ==
    (TableReturned /\ Shown(out, "top_companies")) =>
        /\ top_x \in SliderMin..SliderMax
        /\ \A i, j \in 1..Len(out.top) : i < j => ~Precedes(out.top[j].revenue, out.top[i].revenue)
        /\ Len(out.top) = Min(top_x, Len(Table.rows))
        /\ TopRevenues \subseteq TableRevenues(Table)
        /\ Cardinality({out.top[i].idx : i \in 1..Len(out.top)}) = Len(out.top)
        /\ out.total_revenue = Num(SumOfRevenues(TopRevenues))

\* C4's case: a Table with different revenues cut by N
C4_Witness ==
    /\ TableReturned /\ Shown(out, "top_companies")
    /\ Len(out.top) < Len(Table.rows)
    /\ \E i, j \in 1..Len(Table.rows) :
          Precedes(Table.rows[i]["REVENUES"], Table.rows[j]["REVENUES"])
    /\ out.total_revenue.n > 0

(***************************************************************************)
(* C5: for every cleaned Table, rows with a missing STATE included, the    *)
(* sum over all entries of the revenue-by-region mapping equals the sum of *)
(* revenue over all rows of the Table.                                     *)
(***************************************************************************)
C5_RegionTotalsPartition ==
    (TableReturned /\ Shown(out, "revenue_by_state")) =>
        SumOfRevenues(RegionTotals) = SumOfRevenues(TableRevenues(Table))

(***************************************************************************)
(* C6: whenever the selected region matches zero rows of the Table, mean   *)
(* profit margin and mean employee count report a defined sentinel; a NaN  *)
(* mean is never passed to display.                                        *)
(***************************************************************************)
C6_EmptyRegionSentinel ==
    (TableReturned /\ Shown(out, "selectbox") /\ state_data(Table, out.state) = <<>>) =>
        /\ Shown(out, "profit_margin") => out.avg_profit_margin.k # "nan"
        /\ Shown(out, "avg_employees") => out.avg_employees.k # "nan"

(***************************************************************************)
(* C7: for every row of the selected region, the profit margin is          *)
(* profit / revenue * 100 when revenue # 0 and exactly 0 when revenue = 0; *)
(* computing it raises no division error and gives no undefined value for  *)
(* a zero-revenue row.                                                     *)
(***************************************************************************)
C7_ProfitMargin ==
    /\ (TableReturned /\ Shown(out, "selectbox")) => Shown(out, "profit_margin")
    /\ Shown(out, "profit_margin") =>
          /\ {out.margins[i].idx : i \in 1..Len(out.margins)}
                = {r.idx : r \in {q \in RangeOf(Table.rows) : q["STATE"] = out.state /\ out.state.k # "nan"}}
          /\ \A i \in 1..Len(out.margins) :
                LET r == RowOf(Table.rows, out.margins[i].idx)
                    m == out.margins[i].margin
                IN  /\ (r["REVENUES"].k = "num" /\ r["REVENUES"].n = 0) => m = [k |-> "num", p |-> 0, q |-> 1]
                    /\ (r["REVENUES"].k = "num" /\ r["REVENUES"].n # 0 /\ r["PROFIT"].k = "num") =>
                          /\ m.k = "num" /\ m.q # 0
                          /\ m.p * r["REVENUES"].n = r["PROFIT"].n * 100 * m.q

\* C7's case: the selected region holds a zero-revenue row and another row
C7_Witness ==
    /\ Shown(out, "profit_margin")
    /\ \E i, j \in 1..Len(out.margins) :
          /\ RowOf(Table.rows, out.margins[i].idx)["REVENUES"] = Num(0)
          /\ out.margins[i].margin.p = 0
          /\ out.margins[j].margin.k = "num" /\ out.margins[j].margin.p # 0

(***************************************************************************)
(* C8: when the dataset has all required columns but no LATITUDE/LONGITUDE *)
(* columns, only the map display is disabled: every other aggregate,       *)
(* including the ones after the map step (company count by subregion,      *)
(* employee total by subregion), is still computed and delivered.          *)
(***************************************************************************)
C8_AggregatesWithoutMap ==
    (HasRequired /\ ~(map_columns \subseteq uploaded_file.header) /\ Shown(out, "growth")) =>
        /\ Shown(out, "county_companies")
        /\ Shown(out, "county_employees")

(***************************************************************************)
(* C9: after any sequence of user-parameter changes on one uploaded        *)
(* dataset the Table is the one the loader produced: no aggregation pass   *)
(* adds, removes, reorders or modifies a row or column, and derived values *)
(* such as the profit margin are never stored back onto it.                *)
(***************************************************************************)
C9_TableUnchanged ==
    (FileLoaded /\ loaded.present /\ loaded.ld.exc = "none") =>
        /\ out.df = Table
        /\ cache = loaded
        /\ "PROFIT_MARGIN" \notin out.df.columns

\* C9's case: both parameters were changed and the margins were computed
C9_Witness ==
    /\ loaded.present /\ ~IsEmpty(Table)
    /\ top_x # SliderDefault /\ state_ix # 1
    /\ Shown(out, "profit_margin") /\ out.margins # <<>>
    /\ out.df = Table

(***************************************************************************)
(* C10: in the Top-N result, rows with equal revenue appear in their       *)
(* original Table row order (the sort is stable), so when a tie straddles  *)
(* the N-th position the earlier rows of the Table are the ones selected.  *)
(***************************************************************************)
C10_StableTies ==
    (TableReturned /\ Shown(out, "top_companies")) =>
        /\ \A i, j \in 1..Len(out.top) :
              (i < j /\ out.top[i].revenue = out.top[j].revenue) => out.top[i].idx < out.top[j].idx
        /\ \A e \in TableRevenues(Table) \ TopRevenues : \A t \in TopRevenues :
              (e.v = t.v /\ e.v.k = "num") => t.id < e.id

\* C10 as amended: the order among equal revenues is not fixed, but the rows
\* selected are always N rows of greatest revenue: no row left out precedes
\* a selected row
C10_TopHoldsGreatest ==
    (TableReturned /\ Shown(out, "top_companies")) =>
        \A e \in TableRevenues(Table) \ TopRevenues : \A t \in TopRevenues : ~Precedes(e.v, t.v)

\* C10's case: a tie straddles the N-th position and the later row is selected
C10_Witness ==
    /\ TableReturned /\ Shown(out, "top_companies")
    /\ \E e \in TableRevenues(Table) \ TopRevenues : \E t \in TopRevenues :
          e.v = t.v /\ e.v.k = "num" /\ e.id < t.id

====
